---- MODULE Spec2Model ----
(***************************************************************************)
(* Model of the pg_textsearch demo: the four search endpoints (native,     *)
(* BM25, vector, hybrid), the two database setup paths (the setup script   *)
(* and the POST setup endpoint) and the documents table they share.        *)
(*                                                                         *)
(* Numbers.  Weights are kept in hundredths (0.5 is 50), hybrid            *)
(* thresholds in the UI scale of the request (the route divides by 1000),  *)
(* and a fused score is the exact rational num / (100 * den).  BM25 scores *)
(* and BM25 thresholds are integers of one common unit.  The scores and    *)
(* distances themselves are computed by the database extensions, which are *)
(* not part of the repository: the model ranges over NumProfiles score     *)
(* assignments.  Where SQL leaves the order of equal sort keys open, the   *)
(* statement picks one of the tie orders of TieOrders.                     *)
(***************************************************************************)
EXTENDS Integers, Sequences, FiniteSets, TLC

VARIABLES db, setup, req, resp, prev, profile, page, pool

vars == <<db, setup, req, resp, prev, profile, page, pool>>

(***************************************************************************)
(* Bounds of the model                                                     *)
(***************************************************************************)
NumProfiles == 4
MaxEmbedFailures == 1

MaxRequests == 3

MaxCalls == 3

(***************************************************************************)
(* Program constants                                                       *)
(***************************************************************************)
ScriptDocCount == 15
EndpointDocCount == 10
ResultLimit == 10
RrfK == 60
DefaultWeight == 50
ThresholdScale == 1000
WeightScale == 100

(***************************************************************************)
(* JavaScript values of a JSON request body                                *)
(***************************************************************************)
Undef == [t |-> "undefined"]
Null == [t |-> "null"]
Num(n) == [t |-> "number", n |-> n]
Str(s) == [t |-> "string", s |-> s]

TypeOf(v) == IF v.t = "null" THEN "object" ELSE v.t

Truthy(v) ==
  CASE v.t = "string" -> v.s # <<>>
    [] v.t = "number" -> v.n # 0
    [] OTHER -> FALSE

(***************************************************************************)
(* The database: installed extensions, and the documents table with its    *)
(* columns, rows (ids are SERIAL: 1..n after a fresh CREATE TABLE), the    *)
(* rows whose embedding is set, and its indexes.                           *)
(***************************************************************************)
AllExtensions == {"pg_textsearch", "vector", "vectorscale"}

ScriptColumns ==
  {"id", "title", "content", "category", "word_count", "search_vector",
   "full_text", "embedding"}

EndpointColumns ==
  {"id", "title", "content", "category", "word_count", "search_vector"}

\* The servers the model starts from: what the server offers (avail) and
\* what is installed beforehand (ext); no documents table yet.
FullServer == [avail |-> AllExtensions, ext |-> {}]

Environments ==
  { FullServer,
    [avail |-> {}, ext |-> {"vector"}],
    [avail |-> {"pg_textsearch"}, ext |-> {}] }

FreshDb(env) ==
  [avail |-> env.avail, ext |-> env.ext, table |-> FALSE, cols |-> {},
   rows |-> {}, emb |-> {}, idx |-> {}]

\* DROP TABLE IF EXISTS documents CASCADE: the table goes with its rows and
\* indexes; extensions stay.
DropTable(d) ==
  [d EXCEPT !.table = FALSE, !.cols = {}, !.rows = {}, !.emb = {}, !.idx = {}]

\* CREATE EXTENSION IF NOT EXISTS e [CASCADE]: installs e (and, with
\* CASCADE, what it requires) when the server offers it.
CanCreateExtension(d, e) == e \in d.ext \/ e \in d.avail

CreateExtension(d, installs) == [d EXCEPT !.ext = @ \cup installs]

CreateTable(d, columns) == [d EXCEPT !.table = TRUE, !.cols = columns]

\* INSERT of one document: SERIAL gives it the next id.
InsertDocument(d) == [d EXCEPT !.rows = @ \cup {Cardinality(@) + 1}]

SetEmbedding(d, id) == [d EXCEPT !.emb = @ \cup {id}]

CreateIndex(d, name) == [d EXCEPT !.idx = @ \cup {name}]

(***************************************************************************)
(* resp is the response sent by the step just taken (NoResponse when the   *)
(* step sent none); prev is the response sent before it, remembered only   *)
(* where two responses are compared (keep).                                *)
(***************************************************************************)
NoRequest == [pc |-> "idle"]

NoResponse == [status |-> 0]

Remember(keep) == prev' = IF keep /\ resp # NoResponse THEN resp ELSE prev

Send(r, keep) == resp' = r /\ Remember(keep)

Quiet(keep) == resp' = NoResponse /\ Remember(keep)

(***************************************************************************)
(* scripts/setup-database.js: main() runs the steps below in order, one    *)
(* awaited statement at a time on an autocommit pool.  setup.old is the    *)
(* document set the run found when it started.                             *)
(***************************************************************************)
SetupIdle == [kind |-> "none", pc |-> "idle", i |-> 0, fails |-> 0, old |-> {}]

ScriptStart ==
  /\ setup.pc \in {"idle", "complete", "failed"}
  /\ setup' = [kind |-> "script", pc |-> "drop", i |-> 0, fails |-> 0,
               old |-> db.rows]
  /\ Quiet(FALSE)
  /\ UNCHANGED <<db, req, profile, page, pool>>

dropExistingTables ==
  /\ setup.kind = "script" /\ setup.pc = "drop"
  /\ db' = DropTable(db)
  /\ setup' = [setup EXCEPT !.pc = "extensions"]
  /\ Quiet(FALSE)
  /\ UNCHANGED <<req, profile, page, pool>>

\* Both CREATE EXTENSION statements sit in their own try/catch: a failure
\* is logged and the script goes on.
enableExtensions ==
  /\ setup.kind = "script" /\ setup.pc = "extensions"
  /\ LET d1 == IF CanCreateExtension(db, "pg_textsearch")
               THEN CreateExtension(db, {"pg_textsearch"}) ELSE db
         d2 == IF CanCreateExtension(d1, "vectorscale")
               THEN CreateExtension(d1, {"vector", "vectorscale"}) ELSE d1
     IN db' = d2
  /\ setup' = [setup EXCEPT !.pc = "create"]
  /\ Quiet(FALSE)
  /\ UNCHANGED <<req, profile, page, pool>>

\* CREATE TABLE with an embedding VECTOR(1536) column: throws without the
\* vector type, and main() then reports 'Setup failed'.
createTable ==
  /\ setup.kind = "script" /\ setup.pc = "create"
  /\ IF "vector" \in db.ext
     THEN /\ db' = CreateTable(db, ScriptColumns)
          /\ setup' = [setup EXCEPT !.pc = "insert", !.i = 1]
     ELSE /\ db' = db
          /\ setup' = [setup EXCEPT !.pc = "failed"]
  /\ Quiet(FALSE)
  /\ UNCHANGED <<req, profile, page, pool>>

insertDocuments ==
  /\ setup.kind = "script" /\ setup.pc = "insert"
  /\ db' = InsertDocument(db)
  /\ setup' = IF setup.i = ScriptDocCount
              THEN [setup EXCEPT !.pc = "embed", !.i = 1]
              ELSE [setup EXCEPT !.i = @ + 1]
  /\ Quiet(FALSE)
  /\ UNCHANGED <<req, profile, page, pool>>

\* One round of the loop of generateEmbeddings: the OpenAI call, then the
\* UPDATE of the row.
generateEmbeddings ==
  /\ setup.kind = "script" /\ setup.pc = "embed"
  /\ db' = SetEmbedding(db, setup.i)
  /\ setup' = IF setup.i = ScriptDocCount
              THEN [setup EXCEPT !.pc = "indexes", !.i = 0]
              ELSE [setup EXCEPT !.i = @ + 1]
  /\ Quiet(FALSE)
  /\ UNCHANGED <<req, profile, page, pool>>

\* The same round when the OpenAI call throws: the catch inside the loop
\* logs it and the row keeps a NULL embedding.
generateEmbeddingsFails ==
  /\ setup.kind = "script" /\ setup.pc = "embed"
  /\ setup.fails < MaxEmbedFailures
  /\ setup' = IF setup.i = ScriptDocCount
              THEN [setup EXCEPT !.pc = "indexes", !.i = 0, !.fails = @ + 1]
              ELSE [setup EXCEPT !.i = @ + 1, !.fails = @ + 1]
  /\ Quiet(FALSE)
  /\ UNCHANGED <<db, req, profile, page, pool>>

\* createIndexes, one CREATE INDEX per step: GIN, then BM25 (failure
\* caught), then DiskANN with the HNSW fallback (failures caught).
createIndexGin ==
  /\ setup.kind = "script" /\ setup.pc = "indexes"
  /\ db' = CreateIndex(db, "idx_documents_search")
  /\ setup' = [setup EXCEPT !.pc = "index_bm25"]
  /\ Quiet(FALSE)
  /\ UNCHANGED <<req, profile, page, pool>>

createIndexBm25 ==
  /\ setup.kind = "script" /\ setup.pc = "index_bm25"
  /\ db' = IF "pg_textsearch" \in db.ext
           THEN CreateIndex(db, "idx_documents_bm25") ELSE db
  /\ setup' = [setup EXCEPT !.pc = "index_vector"]
  /\ Quiet(FALSE)
  /\ UNCHANGED <<req, profile, page, pool>>

createIndexVector ==
  /\ setup.kind = "script" /\ setup.pc = "index_vector"
  /\ db' = IF "vectorscale" \in db.ext \/ "vector" \in db.ext
           THEN CreateIndex(db, "idx_documents_embedding") ELSE db
  /\ setup' = [setup EXCEPT !.pc = "verify"]
  /\ Quiet(FALSE)
  /\ UNCHANGED <<req, profile, page, pool>>

\* verifySetup only reads; main() then prints 'Setup Complete'.
verifySetup ==
  /\ setup.kind = "script" /\ setup.pc = "verify"
  /\ setup' = [setup EXCEPT !.pc = "complete"]
  /\ Quiet(FALSE)
  /\ UNCHANGED <<db, req, profile, page, pool>>

ScriptStep ==
  \/ dropExistingTables
  \/ enableExtensions
  \/ createTable
  \/ insertDocuments
  \/ generateEmbeddings
  \/ createIndexGin
  \/ createIndexBm25
  \/ createIndexVector
  \/ verifySetup

(***************************************************************************)
(* POST /api/setup: the same rebuild through the shared query() helper;    *)
(* any failing statement lands in the catch and answers 500.               *)
(***************************************************************************)
EndpointStart ==
  /\ setup.pc \in {"idle", "complete", "failed"}
  /\ setup' = [kind |-> "endpoint", pc |-> "extensions", i |-> 0, fails |-> 0,
               old |-> db.rows]
  /\ Quiet(FALSE)
  /\ UNCHANGED <<db, req, profile, page, pool>>

EndpointExtension ==
  /\ setup.kind = "endpoint" /\ setup.pc = "extensions"
  /\ IF CanCreateExtension(db, "pg_textsearch")
     THEN /\ db' = CreateExtension(db, {"pg_textsearch"})
          /\ setup' = [setup EXCEPT !.pc = "drop"]
     ELSE /\ db' = db
          /\ setup' = [setup EXCEPT !.pc = "failed"]
  /\ Quiet(FALSE)
  /\ UNCHANGED <<req, profile, page, pool>>

EndpointDrop ==
  /\ setup.kind = "endpoint" /\ setup.pc = "drop"
  /\ db' = DropTable(db)
  /\ setup' = [setup EXCEPT !.pc = "create"]
  /\ Quiet(FALSE)
  /\ UNCHANGED <<req, profile, page, pool>>

EndpointCreate ==
  /\ setup.kind = "endpoint" /\ setup.pc = "create"
  /\ db' = CreateTable(db, EndpointColumns)
  /\ setup' = [setup EXCEPT !.pc = "insert", !.i = 1]
  /\ Quiet(FALSE)
  /\ UNCHANGED <<req, profile, page, pool>>

EndpointInsert ==
  /\ setup.kind = "endpoint" /\ setup.pc = "insert"
  /\ db' = InsertDocument(db)
  /\ setup' = IF setup.i = EndpointDocCount
              THEN [setup EXCEPT !.pc = "indexes", !.i = 0]
              ELSE [setup EXCEPT !.i = @ + 1]
  /\ Quiet(FALSE)
  /\ UNCHANGED <<req, profile, page, pool>>

EndpointIndexGin ==
  /\ setup.kind = "endpoint" /\ setup.pc = "indexes"
  /\ db' = CreateIndex(db, "docs_search_idx")
  /\ setup' = [setup EXCEPT !.pc = "index_bm25"]
  /\ Quiet(FALSE)
  /\ UNCHANGED <<req, profile, page, pool>>

EndpointIndexBm25 ==
  /\ setup.kind = "endpoint" /\ setup.pc = "index_bm25"
  /\ db' = CreateIndex(db, "docs_bm25_idx")
  /\ setup' = [setup EXCEPT !.pc = "verify"]
  /\ Quiet(FALSE)
  /\ UNCHANGED <<req, profile, page, pool>>

EndpointVerify ==
  /\ setup.kind = "endpoint" /\ setup.pc = "verify"
  /\ setup' = [setup EXCEPT !.pc = "complete"]
  /\ Quiet(FALSE)
  /\ UNCHANGED <<db, req, profile, page, pool>>

EndpointStep ==
  \/ EndpointExtension
  \/ EndpointDrop
  \/ EndpointCreate
  \/ EndpointInsert
  \/ EndpointIndexGin
  \/ EndpointIndexBm25
  \/ EndpointVerify

(***************************************************************************)
(* Query text: a sequence of one-character strings.                        *)
(*   terms = searchQuery.toLowerCase().split(/\s+/).filter(t => t.length   *)
(*   >= 2)                                                                 *)
(***************************************************************************)
IsSpace(c) == c \in {" ", "\t", "\n"}

ToLowerChar(c) ==
  CASE c = "A" -> "a" [] c = "B" -> "b" [] c = "D" -> "d" [] c = "G" -> "g"
    [] c = "P" -> "p" [] OTHER -> c

ToLowerCase(s) == [i \in 1..Len(s) |-> ToLowerChar(s[i])]

\* split(/\s+/): the pieces between runs of whitespace; a leading or a
\* trailing run leaves an empty piece at that end, the empty text one piece.
RECURSIVE SplitFrom(_, _, _)
SplitFrom(s, i, cur) ==
  IF i > Len(s) THEN <<cur>>
  ELSE IF IsSpace(s[i])
       THEN IF i > 1 /\ IsSpace(s[i - 1])
            THEN SplitFrom(s, i + 1, cur)
            ELSE <<cur>> \o SplitFrom(s, i + 1, <<>>)
       ELSE SplitFrom(s, i + 1, Append(cur, s[i]))

SplitWhitespace(s) == SplitFrom(s, 1, <<>>)

MinTermLength == 2

\* The same without toLowerCase().
QueryTermsCaseKept(s) ==
  SelectSeq(SplitWhitespace(s), LAMBDA t : Len(t) >= MinTermLength)

QueryTerms(s) ==
  SelectSeq(SplitWhitespace(ToLowerCase(s)), LAMBDA t : Len(t) >= MinTermLength)

(***************************************************************************)
(* What the extensions compute for the query at hand (not repository       *)
(* code): the cosine distance of a document's embedding in hundredths, its *)
(* BM25 score (0: the document matches no query term) and its ts_rank      *)
(* (0: the document does not contain all terms), one assignment per        *)
(* profile.                                                                *)
(***************************************************************************)
Profiles == 1..NumProfiles

\* Profiles 1, 5, ... have equal distances and equal scores; 2, 6, ... rank
\* every second document by BM25, all with one score; 3, 7, ... have three
\* BM25 matches and no equal sort key; 4, 8, ... have no BM25 match.
Distance(p, d) ==
  10 * (((d * (2 * p - 1)) % 16) \div (IF p % 4 = 1 THEN 2 ELSE 1))

Bm25Score(p, d) ==
  CASE p % 4 = 1 -> (d + 1) % 4
    [] p % 4 = 2 -> IF d % 2 = 0 THEN 2 ELSE 0
    [] p % 4 = 3 -> IF d <= 3 THEN d ELSE 0
    [] OTHER -> 0

TsRank(p, d) == IF Bm25Score(p, d) >= 2 THEN (d % 3) + 1 ELSE 0

\* LOWER(title || ' ' || content) LIKE '%term%': a term starting with "d" is
\* in every p-th document, another short term in every (p + 1)-th, a long
\* term in none.
TermInDocument(p, term, d) ==
  /\ Len(term) <= 4
  /\ d % (p + (IF term[1] = "d" THEN 0 ELSE 1)) = 0

(***************************************************************************)
(* Exact fractions num / den (den > 0) for the RRF arithmetic.             *)
(***************************************************************************)
Frac(n, d) == [num |-> n, den |-> d]

FracAdd(a, b) == Frac(a.num * b.den + b.num * a.den, a.den * b.den)

FracScale(w, a) == Frac(w * a.num, a.den)

FracLess(a, b) == a.num * b.den < b.num * a.den

FracEq(a, b) == a.num * b.den = b.num * a.den

(***************************************************************************)
(* ORDER BY: the rows of S in the order given by before, a strict total    *)
(* order as a set of pairs.  SQL fixes no order among equal sort keys; a   *)
(* statement resolves them by one of TieOrders.                            *)
(***************************************************************************)
\* Hundredths: the scale of distances, similarities and vector thresholds.
SimilarityScale == 100

TieOrders == {"asc", "desc"}

TieBefore(tie, a, b) == IF tie = "asc" THEN a < b ELSE a > b

OrderBy(S, before) ==
  LET ahead == [d \in S |-> Cardinality({e \in S : <<e, d>> \in before})]
  IN [i \in 1..Cardinality(S) |-> CHOOSE d \in S : ahead[d] = i - 1]

Limit(seq, n) == SubSeq(seq, 1, IF Len(seq) < n THEN Len(seq) ELSE n)

Range(seq) == {seq[i] : i \in 1..Len(seq)}

\* The 1-based position of the row with this id in a list, 0 when absent.
PositionOf(list, id) ==
  IF \E i \in 1..Len(list) : list[i].id = id
  THEN CHOOSE i \in 1..Len(list) : list[i].id = id
  ELSE 0

(***************************************************************************)
(* The SQL statements of the search routes, evaluated on the table as it   *)
(* is when the statement runs.  A statement fails (the route's catch       *)
(* answers 500) when the table, a column, an operator's extension or the   *)
(* index named in to_bm25query is missing.                                 *)
(***************************************************************************)
NativeSqlRuns(d) == d.table /\ "search_vector" \in d.cols

\* The column word_count of each document, as the setup paths compute it
\* from their document lists: the script counts the words of title and
\* content, the endpoint those of the content.
ScriptWordCounts == <<25, 23, 34, 27, 18, 69, 35, 29, 27, 28, 27, 18, 20, 22, 28>>

EndpointWordCounts == <<59, 51, 160, 45, 48, 59, 55, 51, 55, 50>>

\* Only the script's table has the column full_text.
WordCount(d, id) ==
  IF "full_text" \in d.cols THEN ScriptWordCounts[id] ELSE EndpointWordCounts[id]

TermStatsSqlRuns(d) == d.table

Bm25SqlRuns(d) ==
  /\ d.table /\ "full_text" \in d.cols
  /\ "pg_textsearch" \in d.ext /\ "idx_documents_bm25" \in d.idx

VectorSqlRuns(d) == d.table /\ "embedding" \in d.cols /\ "vector" \in d.ext

HybridSqlRuns(d) == VectorSqlRuns(d) /\ Bm25SqlRuns(d)

\* native: WHERE search_vector @@ plainto_tsquery ORDER BY score DESC LIMIT 10
NativeSql(d, p, tie) ==
  LET cand == {x \in d.rows : TsRank(p, x) > 0}
      Before(a, b) == \/ TsRank(p, a) > TsRank(p, b)
                      \/ TsRank(p, a) = TsRank(p, b) /\ TieBefore(tie, a, b)
      sorted == OrderBy(cand, {pair \in cand \X cand : Before(pair[1], pair[2])})
  IN Limit([i \in 1..Len(sorted) |->
              [id |-> sorted[i], score |-> TsRank(p, sorted[i])]], ResultLimit)

\* getTermStats: SELECT COUNT(*) ... WHERE LOWER(title || ' ' || content) LIKE $1
TermStatsSql(d, p, term) == Cardinality({x \in d.rows : TermInDocument(p, term, x)})

\* The same statement with ORDER BY score ASC on the positive score.
Bm25SqlScoreAsc(d, p, bound, tie) ==
  LET cand == {x \in d.rows : -Bm25Score(p, x) < bound}
      Before(a, b) == \/ Bm25Score(p, a) < Bm25Score(p, b)
                      \/ Bm25Score(p, a) = Bm25Score(p, b) /\ TieBefore(tie, a, b)
      sorted == OrderBy(cand, {pair \in cand \X cand : Before(pair[1], pair[2])})
  IN Limit([i \in 1..Len(sorted) |->
              [id |-> sorted[i], score |-> Bm25Score(p, sorted[i]),
               word_count |-> WordCount(d, sorted[i])]], ResultLimit)

\* bm25: the operator <@> yields the negated score.  bound is the right-hand
\* side of "WHERE full_text <@> ... < bound": 0, or $2 = -scoreThreshold.
Bm25Sql(d, p, bound, tie) ==
  LET cand == {x \in d.rows : -Bm25Score(p, x) < bound}
      Before(a, b) == \/ -Bm25Score(p, a) < -Bm25Score(p, b)
                      \/ Bm25Score(p, a) = Bm25Score(p, b) /\ TieBefore(tie, a, b)
      sorted == OrderBy(cand, {pair \in cand \X cand : Before(pair[1], pair[2])})
  IN Limit([i \in 1..Len(sorted) |->
              [id |-> sorted[i], score |-> Bm25Score(p, sorted[i]),
               word_count |-> WordCount(d, sorted[i])]], ResultLimit)

\* vector: WHERE embedding IS NOT NULL [AND distance < $2] ORDER BY distance
\* LIMIT 10.  Distances are in hundredths, bound in ten-thousandths;
\* 1 - distance is the similarity.
VectorSql(d, p, hasBound, bound, tie) ==
  LET cand == {x \in d.rows : x \in d.emb /\ (hasBound => SimilarityScale * Distance(p, x) < bound)}
      Before(a, b) == \/ Distance(p, a) < Distance(p, b)
                      \/ Distance(p, a) = Distance(p, b) /\ TieBefore(tie, a, b)
      sorted == OrderBy(cand, {pair \in cand \X cand : Before(pair[1], pair[2])})
  IN Limit([i \in 1..Len(sorted) |->
              [id |-> sorted[i], distance |-> Distance(p, sorted[i]),
               similarity |-> 100 - Distance(p, sorted[i])]], ResultLimit)

\* hybrid, CTE vector_search: ROW_NUMBER() OVER (ORDER BY distance) AS v_rank
\* ... WHERE embedding IS NOT NULL ORDER BY distance LIMIT 10
VectorSearchCte(d, p, tie) ==
  LET cand == {x \in d.rows : x \in d.emb}
      Before(a, b) == \/ Distance(p, a) < Distance(p, b)
                      \/ Distance(p, a) = Distance(p, b) /\ TieBefore(tie, a, b)
      sorted == OrderBy(cand, {pair \in cand \X cand : Before(pair[1], pair[2])})
  IN Limit([i \in 1..Len(sorted) |->
              [id |-> sorted[i], v_rank |-> i,
               v_distance |-> Distance(p, sorted[i])]], ResultLimit)

\* hybrid, CTE keyword_search: ROW_NUMBER() OVER (ORDER BY <@>) AS k_rank
\* ... WHERE <@> < 0 ORDER BY <@> LIMIT 10
KeywordSearchCte(d, p, tie) ==
  LET cand == {x \in d.rows : -Bm25Score(p, x) < 0}
      Before(a, b) == \/ -Bm25Score(p, a) < -Bm25Score(p, b)
                      \/ Bm25Score(p, a) = Bm25Score(p, b) /\ TieBefore(tie, a, b)
      sorted == OrderBy(cand, {pair \in cand \X cand : Before(pair[1], pair[2])})
  IN Limit([i \in 1..Len(sorted) |->
              [id |-> sorted[i], k_rank |-> i,
               k_score |-> Bm25Score(p, sorted[i])]], ResultLimit)

\* A penalty rank past the end of the list for an absent document, in the
\* way of README.md's hybrid query: 1.0 / (60 + COALESCE(rank, 1000)).
RankContributionPenalty(rank) ==
  Frac(1, RrfK + (IF rank = 0 THEN ResultLimit + 1 ELSE rank))

\* COALESCE(1.0 / (60 + rank), 0.0); rank 0 stands for the NULL of the
\* outer join.
RankContribution(rank) == IF rank = 0 THEN Frac(0, 1) ELSE Frac(1, RrfK + rank)

\* The sum with $3 and $4 exchanged.
RrfScoreSwapped(vectorWeight, keywordWeight, v_rank, k_rank) ==
  FracAdd(FracScale(keywordWeight, RankContribution(v_rank)),
          FracScale(vectorWeight, RankContribution(k_rank)))

\* ($3 * COALESCE(1.0 / (60 + v.v_rank), 0.0)) +
\* ($4 * COALESCE(1.0 / (60 + k.k_rank), 0.0)), in hundredths.
RrfScore(vectorWeight, keywordWeight, v_rank, k_rank) ==
  FracAdd(FracScale(vectorWeight, RankContribution(v_rank)),
          FracScale(keywordWeight, RankContribution(k_rank)))

\* WHERE score >= $5, with $5 = scoreThreshold / 1000 and the score in
\* hundredths.
MeetsHybridThreshold(score, scoreThreshold) ==
  score.num * ThresholdScale >= scoreThreshold * score.den * WeightScale

\* The CTE with vector_search LEFT JOIN keyword_search ON id.
CombinedCteLeftJoin(vlist, klist, vectorWeight, keywordWeight) ==
  LET ids == {vlist[i].id : i \in 1..Len(vlist)}
      Row(x) ==
        LET vr == PositionOf(vlist, x)
            kr == PositionOf(klist, x)
            v_rank == IF vr = 0 THEN 0 ELSE vlist[vr].v_rank
            k_rank == IF kr = 0 THEN 0 ELSE klist[kr].k_rank
        IN [id |-> x, v_rank |-> v_rank, k_rank |-> k_rank,
            score |-> RrfScore(vectorWeight, keywordWeight, v_rank, k_rank)]
  IN {Row(x) : x \in ids}

\* hybrid, CTE combined: vector_search FULL OUTER JOIN keyword_search ON id.
CombinedCte(vlist, klist, vectorWeight, keywordWeight) ==
  LET ids == {vlist[i].id : i \in 1..Len(vlist)} \cup {klist[i].id : i \in 1..Len(klist)}
      Row(x) ==
        LET vr == PositionOf(vlist, x)
            kr == PositionOf(klist, x)
            v_rank == IF vr = 0 THEN 0 ELSE vlist[vr].v_rank
            k_rank == IF kr = 0 THEN 0 ELSE klist[kr].k_rank
        IN [id |-> x, v_rank |-> v_rank, k_rank |-> k_rank,
            score |-> RrfScore(vectorWeight, keywordWeight, v_rank, k_rank)]
  IN {Row(x) : x \in ids}

\* hybrid: SELECT * FROM combined [WHERE score >= $5] ORDER BY score DESC
\* LIMIT 10
HybridSql(vlist, klist, vectorWeight, keywordWeight, hasThreshold, scoreThreshold, tie) ==
  LET combined == CombinedCte(vlist, klist, vectorWeight, keywordWeight)
      kept == {r \in combined :
                 hasThreshold => MeetsHybridThreshold(r.score, scoreThreshold)}
      Before(a, b) == \/ FracLess(b.score, a.score)
                      \/ FracEq(a.score, b.score) /\ TieBefore(tie, a.id, b.id)
  IN Limit(OrderBy(kept, {pair \in kept \X kept : Before(pair[1], pair[2])}),
           ResultLimit)

(***************************************************************************)
(* The search routes.  A request is handled in steps, one per await: the   *)
(* synchronous head (parse, validate, tokenize), the OpenAI call, each     *)
(* term-statistics query, and the ranking query with the response.         *)
(***************************************************************************)
NA == Str(<<"N", "/", "A">>)

\* a || b
JsOr(a, b) == IF Truthy(a) THEN a ELSE b

\* if (!searchQuery?.trim() || ...): a query of whitespace is refused too.
ValidQueryTrimmed(v) ==
  ~(~Truthy(v) \/ TypeOf(v) # "string") /\ \E i \in 1..Len(v.s) : ~IsSpace(v.s[i])

\* if (!searchQuery): any truthy query passes.
ValidQueryTruthy(v) == Truthy(v)

\* if (!searchQuery || typeof searchQuery !== 'string') -> 400
ValidQuery(v) == ~(~Truthy(v) \/ TypeOf(v) # "string")

\* body.vectorWeight || 0.5
ParseWeightOr(v) ==
  IF TypeOf(v) = "number" /\ Truthy(v) THEN v.n ELSE DefaultWeight

\* typeof body.vectorWeight === 'number' ? body.vectorWeight : 0.5
ParseWeight(v) == IF TypeOf(v) = "number" THEN v.n ELSE DefaultWeight

\* typeof scoreThreshold === 'number' && scoreThreshold > 0
HasThreshold(v) == TypeOf(v) = "number" /\ v.n > 0

\* What the statement saw, kept with the response for the analysis.
NoLists == [vector |-> <<>>, keyword |-> <<>>]

Snapshot ==
  [table |-> db.table, cols |-> db.cols, rows |-> db.rows, emb |-> db.emb,
   idx |-> db.idx, ext |-> db.ext,
   setupKind |-> setup.kind, setupPc |-> setup.pc, old |-> setup.old,
   lists |-> NoLists]

NoSnapshot ==
  [table |-> FALSE, cols |-> {}, rows |-> {}, emb |-> {}, idx |-> {}, ext |-> {},
   setupKind |-> "none",
   setupPc |-> "none", old |-> {}, lists |-> NoLists]

Response(r, status, error, results, seen) ==
  [status |-> status, error |-> error, method |-> r.ep,
   request |-> [ep |-> r.ep, body |-> r.body],
   results |-> results, queryTerms |-> r.terms, termStats |-> r.stats,
   vectorWeight |-> r.vectorWeight, keywordWeight |-> r.keywordWeight,
   scoreThreshold |-> IF HasThreshold(r.body.scoreThreshold)
                      THEN r.body.scoreThreshold ELSE Null,
   embedCalls |-> r.embedCalls, dbCalls |-> r.dbCalls, seen |-> seen]

\* The step a valid request takes first.
FirstStep(ep, terms) ==
  CASE ep = "native" -> "query"
    [] ep = "bm25" -> IF terms = <<>> THEN "query" ELSE "stats"
    [] OTHER -> "embed"

\* await request.json() throws on a body that is no JSON, and reading
\* .query of the JSON value null throws as well.
JsonThrows(body) == body.json # "object"

\* POST, up to the first await: request.json(), the weights, the query check
\* and the terms.  What throws lands in the catch, which answers 500.
Receive(ep, body, keep) ==
  /\ req.pc = "idle" /\ resp = NoResponse
  /\ LET terms == IF TypeOf(body.query) = "string"
                  THEN QueryTerms(body.query.s) ELSE <<>>
         r == [pc |-> FirstStep(ep, terms), ep |-> ep, body |-> body,
               terms |-> terms, stats |-> <<>>,
               vectorWeight |-> ParseWeight(body.vectorWeight),
               keywordWeight |-> ParseWeight(body.keywordWeight),
               embedCalls |-> 0, dbCalls |-> 0]
     IN IF JsonThrows(body)
        THEN /\ req' = NoRequest
             /\ Send(Response([r EXCEPT !.terms = <<>>], 500, "Search failed",
                              <<>>, NoSnapshot), keep)
        ELSE IF ValidQuery(body.query)
             THEN /\ req' = r
                  /\ Quiet(keep)
             ELSE /\ req' = NoRequest
                  /\ Send(Response([r EXCEPT !.terms = <<>>], 400,
                                   "Query is required", <<>>, NoSnapshot), keep)
  /\ UNCHANGED <<db, setup, profile, page, pool>>

\* await getOpenAIEmbedding(searchQuery): a missing key, a network failure
\* or an API error throws and the catch answers 500.
getOpenAIEmbedding(keep) ==
  /\ req.pc = "embed"
  /\ \E ok \in BOOLEAN :
       LET r == [req EXCEPT !.embedCalls = @ + 1]
       IN IF ok
          THEN /\ req' = [r EXCEPT !.pc = "query"]
               /\ Quiet(keep)
          ELSE /\ req' = NoRequest
               /\ Send(Response(r, 500, "Search failed", <<>>, NoSnapshot), keep)
  /\ UNCHANGED <<db, setup, profile, page, pool>>

\* One round of the loop of getTermStats: the COUNT query of the next term.
\*   idf = ln((totalDocs - docFreq + 0.5) / (docFreq + 0.5) + 1), totalDocs = 10;
\* the response keeps the argument of the logarithm as a fraction.
TotalDocs == 10

IdfArgument(docFreq) ==
  FracAdd(Frac(2 * (TotalDocs - docFreq) + 1, 2 * docFreq + 1), Frac(1, 1))

\* Math.log((N - n + 0.5) / (n + 0.5) + 1).toFixed(2) in hundredths, tabulated:
\* row N, column n, for N and n in 1..15.
IdfTable ==
  <<
     <<29, -22, -56, -81, -101, -118, -132, -145, -156, -166, -175, -183, -191, -198, -205>>,
     <<69, 18, -15, -41, -61, -77, -92, -104, -115, -125, -134, -143, -150, -158, -164>>,
     <<98, 47, 13, -12, -32, -49, -63, -75, -86, -97, -106, -114, -122, -129, -135>>,
     <<120, 69, 36, 11, -10, -26, -41, -53, -64, -74, -83, -92, -99, -106, -113>>,
     <<139, 88, 54, 29, 9, -8, -22, -35, -46, -56, -65, -73, -81, -88, -95>>,
     <<154, 103, 69, 44, 24, 7, -7, -19, -31, -41, -50, -58, -66, -73, -79>>,
     <<167, 116, 83, 58, 37, 21, 6, -6, -17, -27, -36, -45, -52, -59, -66>>,
     <<179, 128, 94, 69, 49, 33, 18, 6, -5, -15, -25, -33, -41, -48, -54>>,
     <<190, 139, 105, 80, 60, 43, 29, 16, 5, -5, -14, -22, -30, -37, -44>>,
     <<199, 148, 115, 89, 69, 53, 38, 26, 15, 5, -4, -13, -20, -28, -34>>,
     <<208, 157, 123, 98, 78, 61, 47, 34, 23, 13, 4, -4, -12, -19, -26>>,
     <<216, 165, 131, 106, 86, 69, 55, 42, 31, 21, 12, 4, -4, -11, -18>>,
     <<223, 172, 139, 113, 93, 77, 62, 50, 39, 29, 20, 11, 4, -4, -10>>,
     <<230, 179, 146, 120, 100, 84, 69, 57, 46, 36, 27, 18, 11, 3, -3>>,
     <<237, 186, 152, 127, 107, 90, 76, 63, 52, 42, 33, 25, 17, 10, 3>>
  >>

IdfFixed(totalDocs, docFreq) == IdfTable[totalDocs][docFreq]

\* The same with toFixed(0): the logarithm rounded to a whole number.
IdfWholeNumber(docFreq) ==
  IF docFreq = 0 THEN NA
  ELSE Num(100 * ((IdfFixed(TotalDocs, docFreq) + 50) \div 100))

\* const idf = docFreq === 0 ? 'N/A' : (Math.log(...)).toFixed(2)
Idf(docFreq) == IF docFreq = 0 THEN NA ELSE Num(IdfFixed(TotalDocs, docFreq))

getTermStats(keep) ==
  /\ req.pc = "stats"
  /\ LET r == [req EXCEPT !.dbCalls = @ + 1]
         term == req.terms[Len(req.stats) + 1]
         docFreq == TermStatsSql(db, profile, term)
         stat == [term |-> term, docFreq |-> docFreq, idf |-> Idf(docFreq),
                  idfArg |-> IdfArgument(docFreq)]
     IN IF TermStatsSqlRuns(db)
        THEN /\ req' = [r EXCEPT !.stats = Append(@, stat),
                                 !.pc = IF Len(req.stats) + 1 = Len(req.terms)
                                        THEN "query" ELSE "stats"]
             /\ Quiet(keep)
        ELSE /\ req' = NoRequest
             /\ Send(Response(r, 500, "Search failed", <<>>, Snapshot), keep)
  /\ UNCHANGED <<db, setup, profile, page, pool>>

\* The ranking query of a route and its response; rows is what the statement
\* returns when it runs, lists what it ranked on the way (hybrid only).
Answer(runs, rows, lists, keep) ==
  LET r == [req EXCEPT !.dbCalls = @ + 1]
  IN /\ req' = NoRequest
     /\ IF runs
        THEN Send(Response(r, 200, "", rows, [Snapshot EXCEPT !.lists = lists]), keep)
        ELSE Send(Response(r, 500, "Search failed", <<>>, Snapshot), keep)
     /\ UNCHANGED <<db, setup, profile, page, pool>>

\* The response has gone out; the route keeps nothing of the request.
Sent(keep) ==
  /\ resp # NoResponse
  /\ Quiet(keep)
  /\ UNCHANGED <<db, setup, req, profile, page, pool>>

\* plainto_tsquery and to_bm25query get the raw query text: the database
\* splits it itself, and a text without any word matches no document.
HasWord(s) == \E i \in 1..Len(s) : ~IsSpace(s[i])

\* The same on a server that hands the matches out once: after a response
\* has gone out, a later statement finds none.
TextMatchesOnce(s, rows) == IF HasWord(s) /\ prev = NoResponse THEN rows ELSE <<>>

TextMatches(s, rows) == IF HasWord(s) THEN rows ELSE <<>>

NativeQuery(keep) ==
  /\ req.pc = "query" /\ req.ep = "native"
  /\ \E tie \in TieOrders :
       \E rows \in {TextMatches(req.body.query.s, NativeSql(db, profile, tie))} :
         Answer(NativeSqlRuns(db), rows, NoLists, keep)

\* params = hasThreshold ? [searchQuery, -scoreThreshold] : [searchQuery]
Bm25Bound(scoreThreshold) ==
  IF HasThreshold(scoreThreshold) THEN -scoreThreshold.n ELSE 0

\* const avgLength = 45; // Approximate average
AvgLength == 45

\* row.word_count < avgLength ? 'boost ...' :
\*   row.word_count > avgLength * 1.5 ? 'penalty ...' : 'neutral'
LengthFactor(word_count) ==
  IF word_count < AvgLength THEN "boost (shorter than avg)"
  ELSE IF 2 * word_count > 3 * AvgLength THEN "penalty (longer than avg)"
       ELSE "neutral"

\* resultsWithAnalysis of the BM25 route.
Bm25Analysis(row) ==
  [id |-> row.id, score |-> row.score, word_count |-> row.word_count,
   lengthFactor |-> LengthFactor(row.word_count)]

Bm25Query(keep) ==
  /\ req.pc = "query" /\ req.ep = "bm25"
  /\ \E tie \in TieOrders :
       \E rows \in {TextMatches(req.body.query.s,
                                Bm25Sql(db, profile,
                                        Bm25Bound(req.body.scoreThreshold), tie))} :
         Answer(Bm25SqlRuns(db), [i \in 1..Len(rows) |-> Bm25Analysis(rows[i])],
                NoLists, keep)

\* A threshold taken as a similarity between 0 and 1: 1 - scoreThreshold.
DistanceThresholdOfFraction(scoreThreshold) ==
  IF HasThreshold(scoreThreshold)
  THEN SimilarityScale * (SimilarityScale - scoreThreshold.n)
  ELSE 2 * SimilarityScale * SimilarityScale

\* distanceThreshold = hasThreshold ? 1 - (scoreThreshold / 100) : 2, in
\* ten-thousandths, of a scoreThreshold in hundredths.
DistanceThreshold(scoreThreshold) ==
  IF HasThreshold(scoreThreshold)
  THEN SimilarityScale * SimilarityScale - scoreThreshold.n
  ELSE 2 * SimilarityScale * SimilarityScale

VectorQuery(keep) ==
  /\ req.pc = "query" /\ req.ep = "vector"
  /\ \E tie \in TieOrders :
       \E rows \in {VectorSql(db, profile, HasThreshold(req.body.scoreThreshold),
                              DistanceThreshold(req.body.scoreThreshold), tie)} :
         Answer(VectorSqlRuns(db), rows, NoLists, keep)

\* A NULL of the join arrives as null, a rank as its number.
SqlRank(rank) == IF rank = 0 THEN Null ELSE Num(rank)

\* resultsWithAnalysis with the single-list tests ahead of the test for both.
HybridAnalysisVectorFirst(row) ==
  LET v_rank == SqlRank(row.v_rank)
      k_rank == SqlRank(row.k_rank)
  IN [id |-> row.id, score |-> row.score, v_rank |-> v_rank, k_rank |-> k_rank,
      vectorRank |-> JsOr(v_rank, NA), keywordRank |-> JsOr(k_rank, NA),
      reason |-> IF Truthy(v_rank)
                 THEN [found |-> "VECTOR only", vector |-> v_rank, keyword |-> Null]
                 ELSE IF Truthy(k_rank)
                      THEN [found |-> "KEYWORD only", vector |-> Null, keyword |-> k_rank]
                      ELSE [found |-> "BOTH", vector |-> v_rank, keyword |-> k_rank]]

\* resultsWithAnalysis of the hybrid route.
HybridAnalysis(row) ==
  LET v_rank == SqlRank(row.v_rank)
      k_rank == SqlRank(row.k_rank)
  IN [id |-> row.id, score |-> row.score, v_rank |-> v_rank, k_rank |-> k_rank,
      vectorRank |-> JsOr(v_rank, NA), keywordRank |-> JsOr(k_rank, NA),
      reason |-> IF Truthy(v_rank) /\ Truthy(k_rank)
                 THEN [found |-> "BOTH", vector |-> v_rank, keyword |-> k_rank]
                 ELSE IF Truthy(v_rank)
                      THEN [found |-> "VECTOR only", vector |-> v_rank, keyword |-> Null]
                      ELSE [found |-> "KEYWORD only", vector |-> Null, keyword |-> k_rank]]

\* thresholdValue = hasThreshold ? scoreThreshold / 1000 : 0, kept in the
\* scale of the request.
ThresholdValue(scoreThreshold) ==
  IF HasThreshold(scoreThreshold) THEN scoreThreshold.n ELSE 0

HybridQuery(keep) ==
  /\ req.pc = "query" /\ req.ep = "hybrid"
  /\ \E tv \in TieOrders, tk \in TieOrders, tf \in TieOrders :
       \E vlist \in {VectorSearchCte(db, profile, tv)},
          klist \in {TextMatches(req.body.query.s,
                                 KeywordSearchCte(db, profile, tk))} :
         \E rows \in {HybridSql(vlist, klist, req.vectorWeight, req.keywordWeight,
                                HasThreshold(req.body.scoreThreshold),
                                ThresholdValue(req.body.scoreThreshold), tf)} :
           Answer(HybridSqlRuns(db),
                  [i \in 1..Len(rows) |-> HybridAnalysis(rows[i])],
                  [vector |-> [i \in 1..Len(vlist) |-> vlist[i].id],
                   keyword |-> [i \in 1..Len(klist) |-> klist[i].id]], keep)

(***************************************************************************)
(* Requests                                                                *)
(***************************************************************************)
QueryText == <<"D", "B", " ", "p", "g">>

\* A body that is a JSON object, with the fields the routes read.
Body(query, vectorWeight, keywordWeight, scoreThreshold) ==
  [json |-> "object", query |-> query, vectorWeight |-> vectorWeight,
   keywordWeight |-> keywordWeight, scoreThreshold |-> scoreThreshold]

\* The body null, and a body that is no JSON (an empty one, say).
MalformedBodies ==
  {[Body(Undef, Undef, Undef, Undef) EXCEPT !.json = kind] : kind \in {"null", "invalid"}}

PlainBody == Body(Str(QueryText), Undef, Undef, Undef)

\* Query texts without a term for the routes: whitespace only, and
\* one-character words only; and one with punctuation inside a word.
BlankText == <<" ">>

ShortWordsText == <<"a", " ", "b">>

PunctuatedText == <<"P", "G", "-", "1", "2">>

OtherTexts == {Str(BlankText), Str(ShortWordsText), Str(PunctuatedText)}

\* What a caller may put where the route expects the query.
QueryValues == {Undef, Null, Str(<<>>), Num(5), Str(QueryText)}

\* ... a weight (hundredths) ...
WeightValues == {Undef, Str(<<"1">>), Num(-50), Num(0), Num(64), Num(150)}

\* ... a BM25 score threshold, and a hybrid one (the UI slider runs 0..30).
Bm25Thresholds == {Undef, Num(0), Num(1), Num(2), Num(3)}

HybridThresholds == {Undef, Num(0), Num(8), Num(10)}

\* ... a similarity threshold of the vector route in hundredths: 0.3, 30
\* and 60.
VectorThresholds == {Undef, Num(30), Num(3000), Num(6000)}

NativeBodies ==
  {Body(q, Undef, Undef, Undef) : q \in QueryValues \cup OtherTexts}
    \cup MalformedBodies

Bm25Bodies ==
  {Body(q, Undef, Undef, t) : q \in QueryValues, t \in Bm25Thresholds}
    \cup {Body(q, Undef, Undef, Undef) : q \in OtherTexts}
    \cup MalformedBodies

VectorBodies ==
  {Body(q, Undef, Undef, t) : q \in QueryValues, t \in VectorThresholds}
    \cup {Body(q, Undef, Undef, Undef) : q \in OtherTexts}
    \cup MalformedBodies

HybridBodies ==
  {Body(q, v, k, t) : q \in QueryValues, v \in WeightValues, k \in WeightValues,
                      t \in HybridThresholds}
    \cup {Body(q, Undef, Undef, Undef) : q \in OtherTexts}
    \cup MalformedBodies

(***************************************************************************)
(* src/app/page.tsx: the state of the Home component, the fetches it has   *)
(* in flight and its two debounce timers.  A response is kept as the       *)
(* request it answers; time runs in ticks of 100 ms.                       *)
(***************************************************************************)
\* setTimeout(updateHybrid, 300) and setTimeout(updateBm25, 300), in ticks.
DebounceTicks == 3

DemoQueries == {"database connection pooling", "database authentication"}

\* Positions of the three sliders the model uses.
HybridMixValues == {50, 100}

HybridThresholdValues == {0, 8}

ScoreThresholdValues == {0, 2}

\* moved: since when the hybrid sliders rest (ticks, up to DebounceTicks),
\* whether the effect of the last change found results and a query, and how
\* many hybrid re-runs went out since, with the number of the last.
PageIdle ==
  [searchQuery |-> "database connection pooling", loading |-> FALSE,
   hybridMix |-> 50, scoreThreshold |-> 0, hybridThreshold |-> 0,
   nativeResults |-> Null, bm25Results |-> Null, vectorResults |-> Null,
   hybridResults |-> Null,
   hybridTimers |-> {}, bm25Timers |-> {}, inflight |-> {}, issued |-> 0,
   moved |-> [any |-> FALSE, since |-> 0, sent |-> 0, ready |-> FALSE, seq |-> 0],
   logged |-> [seq |-> 0, error |-> ""]]

\* The requests of one call, with the values of the render that made it.
Fetch(seq, kind, query, pg) ==
  [seq |-> seq, kind |-> kind, query |-> query, hybridMix |-> pg.hybridMix,
   hybridThreshold |-> pg.hybridThreshold, scoreThreshold |-> pg.scoreThreshold]

\* await res.json(): the response, kept as the request it answers.
Data(r) == [t |-> "object", seq |-> r.seq, query |-> r.query]

\* The model stops issuing at MaxRequests requests, timers counted.
MayIssue ==
  page.issued + Cardinality(page.hybridTimers) + Cardinality(page.bm25Timers)
    < MaxRequests

\* onChange of the search box: setSearchQuery(e.target.value).
TypeQuery ==
  /\ \E q \in (DemoQueries \cup {""}) \ {page.searchQuery} :
       page' = [page EXCEPT !.searchQuery = q]
  /\ UNCHANGED <<db, setup, req, resp, prev, profile, pool>>

\* runSearch / runSearchWithQuery up to the await: setLoading(true) and the
\* four fetches of Promise.all, kept as one request.
StartSearch(pg, query) ==
  [pg EXCEPT !.loading = TRUE, !.issued = @ + 1,
             !.inflight = @ \cup {Fetch(pg.issued + 1, "full", query, pg)}]

\* The search button: onClick={runSearch} disabled={loading}.
ClickSearch ==
  /\ ~page.loading /\ MayIssue
  /\ page' = StartSearch(page, page.searchQuery)
  /\ UNCHANGED <<db, setup, req, resp, prev, profile, pool>>

\* handleKeyDown: Enter in the search box calls runSearch.
handleKeyDown ==
  /\ MayIssue
  /\ page' = StartSearch(page, page.searchQuery)
  /\ UNCHANGED <<db, setup, req, resp, prev, profile, pool>>

\* A demo button: onClick={() => runDemoQuery(...)} disabled={loading}.
runDemoQuery ==
  /\ ~page.loading /\ MayIssue
  /\ \E q \in DemoQueries :
       page' = StartSearch([page EXCEPT !.searchQuery = q], q)
  /\ UNCHANGED <<db, setup, req, resp, prev, profile, pool>>

\* How a full search may end: all four bodies parsed, a fetch rejected, or
\* the body of one response not JSON.
Outcomes == {"ok", "rejected", "native", "bm25", "vector", "hybrid"}

\* console.error('Search failed:', error) of the catch.
Logged(pg, r, outcome) ==
  [pg EXCEPT !.logged = [seq |-> r.seq,
                         error |-> IF outcome = "rejected" THEN "fetch" ELSE "json"]]

\* A page that sets each state as soon as its body is parsed.
SettledEagerly(pg, r, outcome) ==
  LET parsed == CASE outcome = "ok" -> {"native", "bm25", "vector", "hybrid"}
                  [] outcome = "hybrid" -> {"native", "bm25", "vector"}
                  [] outcome = "vector" -> {"native", "bm25"}
                  [] outcome = "bm25" -> {"native"}
                  [] OTHER -> {}
      set == [pg EXCEPT
                !.nativeResults = IF "native" \in parsed THEN Data(r) ELSE @,
                !.bm25Results = IF "bm25" \in parsed THEN Data(r) ELSE @,
                !.vectorResults = IF "vector" \in parsed THEN Data(r) ELSE @,
                !.hybridResults = IF "hybrid" \in parsed THEN Data(r) ELSE @]
  IN IF outcome = "ok" THEN set ELSE Logged(set, r, outcome)

\* The rest of runSearch / runSearchWithQuery after await Promise.all: the
\* four bodies are parsed one after the other and then the four states are
\* set; a fetch that rejects or a body that does not parse lands in the
\* catch before any state is set.
Settled(pg, r, outcome) ==
  IF outcome = "ok"
  THEN [pg EXCEPT !.nativeResults = Data(r), !.bm25Results = Data(r),
                  !.vectorResults = Data(r), !.hybridResults = Data(r)]
  ELSE Logged(pg, r, outcome)

\* A full search ends; finally setLoading(false).
SearchSettles ==
  /\ \E r \in page.inflight, outcome \in Outcomes :
       /\ r.kind = "full"
       /\ page' = [Settled(page, r, outcome) EXCEPT !.inflight = @ \ {r},
                                                   !.loading = FALSE]
  /\ UNCHANGED <<db, setup, req, resp, prev, profile, pool>>

\* An effect that keeps its timers: no cleanup is returned.
CleanupNothing(timers) == timers

\* return () => clearTimeout(timeout): the cleanup of the previous run of
\* the effect clears the timer that run set.
Cleanup(timers) == {}

\* useEffect(..., [hybridMix, hybridThreshold]) after the render of a slider
\* change: the cleanup, then a new timer if hybridResults && searchQuery.
HybridEffect(pg) ==
  LET ready == pg.hybridResults # Null /\ pg.searchQuery # ""
      timer == [left |-> DebounceTicks, query |-> pg.searchQuery,
                hybridMix |-> pg.hybridMix, hybridThreshold |-> pg.hybridThreshold,
                scoreThreshold |-> pg.scoreThreshold]
  IN [pg EXCEPT !.hybridTimers = Cleanup(@) \cup (IF ready THEN {timer} ELSE {}),
                !.moved = [any |-> TRUE, since |-> 0, sent |-> 0, ready |-> ready,
                           seq |-> 0]]

\* onChange of the hybrid mix slider: setHybridMix.
MoveHybridMix ==
  /\ MayIssue
  /\ \E v \in HybridMixValues \ {page.hybridMix} :
       page' = HybridEffect([page EXCEPT !.hybridMix = v])
  /\ UNCHANGED <<db, setup, req, resp, prev, profile, pool>>

\* onChange of the hybrid threshold slider: setHybridThreshold.
MoveHybridThreshold ==
  /\ MayIssue
  /\ \E v \in HybridThresholdValues \ {page.hybridThreshold} :
       page' = HybridEffect([page EXCEPT !.hybridThreshold = v])
  /\ UNCHANGED <<db, setup, req, resp, prev, profile, pool>>

\* useEffect(..., [scoreThreshold]): the same for the BM25 panel.
Bm25Effect(pg) ==
  LET ready == pg.bm25Results # Null /\ pg.searchQuery # ""
      timer == [left |-> DebounceTicks, query |-> pg.searchQuery,
                hybridMix |-> pg.hybridMix, hybridThreshold |-> pg.hybridThreshold,
                scoreThreshold |-> pg.scoreThreshold]
  IN [pg EXCEPT !.bm25Timers = Cleanup(@) \cup (IF ready THEN {timer} ELSE {})]

\* onChange of the BM25 score slider: setScoreThreshold.
MoveScoreThreshold ==
  /\ MayIssue
  /\ \E v \in ScoreThresholdValues \ {page.scoreThreshold} :
       page' = Bm25Effect([page EXCEPT !.scoreThreshold = v])
  /\ UNCHANGED <<db, setup, req, resp, prev, profile, pool>>

\* 100 ms pass: no timer is due, and something is waiting for the time.
Tick ==
  /\ \A timer \in page.hybridTimers \cup page.bm25Timers : timer.left > 0
  /\ \/ page.hybridTimers \cup page.bm25Timers # {}
     \/ page.moved.any /\ page.moved.since < DebounceTicks
  /\ page' = [page EXCEPT
       !.hybridTimers = {[timer EXCEPT !.left = @ - 1] : timer \in @},
       !.bm25Timers = {[timer EXCEPT !.left = @ - 1] : timer \in @},
       !.moved.since = IF @ < DebounceTicks THEN @ + 1 ELSE @]
  /\ UNCHANGED <<db, setup, req, resp, prev, profile, pool>>

\* updateHybrid, called by its timer: the fetch, with the values of the
\* render that set the timer.
updateHybrid ==
  /\ \E timer \in page.hybridTimers :
       /\ timer.left = 0
       /\ page' = [page EXCEPT
            !.hybridTimers = @ \ {timer}, !.issued = @ + 1,
            !.inflight = @ \cup {Fetch(page.issued + 1, "hybrid", timer.query, timer)},
            !.moved.sent = @ + 1, !.moved.seq = page.issued + 1]
  /\ UNCHANGED <<db, setup, req, resp, prev, profile, pool>>

\* updateBm25, called by its timer.
updateBm25 ==
  /\ \E timer \in page.bm25Timers :
       /\ timer.left = 0
       /\ page' = [page EXCEPT
            !.bm25Timers = @ \ {timer}, !.issued = @ + 1,
            !.inflight = @ \cup {Fetch(page.issued + 1, "bm25", timer.query, timer)}]
  /\ UNCHANGED <<db, setup, req, resp, prev, profile, pool>>

\* The rest of updateHybrid / updateBm25: the parsed response is set; a
\* fetch that rejects or a body that does not parse is logged.
UpdateSettles ==
  /\ \E r \in page.inflight, ok \in BOOLEAN :
       /\ r.kind # "full"
       /\ page' = IF ~ok THEN [page EXCEPT !.inflight = @ \ {r}]
                  ELSE IF r.kind = "hybrid"
                       THEN [page EXCEPT !.inflight = @ \ {r},
                                         !.hybridResults = Data(r)]
                       ELSE [page EXCEPT !.inflight = @ \ {r},
                                         !.bm25Results = Data(r)]
  /\ UNCHANGED <<db, setup, req, resp, prev, profile, pool>>

(***************************************************************************)
(* lib/db: the shared query() helper on the pg pool.  pool.clients is the  *)
(* set of calls that hold a client; a call keeps how often it released.    *)
(***************************************************************************)
Calls == 1..MaxCalls

PoolIdle == [clients |-> {}, calls |-> [id \in Calls |-> [pc |-> "idle", released |-> 0]]]

\* export async function query(text, params): the call begins.
query ==
  /\ \E id \in Calls :
       /\ pool.calls[id].pc = "idle"
       /\ pool' = [pool EXCEPT !.calls[id].pc = "connect"]
  /\ UNCHANGED <<db, setup, req, resp, prev, profile, page>>

\* const client = await pool.connect(): a client is checked out, or the
\* promise rejects and the error leaves query() before its try.
connect ==
  /\ \E id \in Calls, ok \in BOOLEAN :
       /\ pool.calls[id].pc = "connect"
       /\ pool' = IF ok
                  THEN [pool EXCEPT !.calls[id].pc = "query", !.clients = @ \cup {id}]
                  ELSE [pool EXCEPT !.calls[id].pc = "connect threw"]
  /\ UNCHANGED <<db, setup, req, resp, prev, profile, page>>

\* client.release() after the return only: a statement that throws skips it.
ReleaseOnReturn(pl, id, ok) ==
  IF ok THEN [pl EXCEPT !.clients = @ \ {id}, !.calls[id].released = @ + 1]
  ELSE pl

\* finally { client.release() }
Release(pl, id, ok) ==
  [pl EXCEPT !.clients = @ \ {id}, !.calls[id].released = @ + 1]

\* await client.query(text, params) returns or throws; then the finally.
clientQuery ==
  /\ \E id \in Calls, ok \in BOOLEAN :
       /\ pool.calls[id].pc = "query"
       /\ pool' = [Release(pool, id, ok) EXCEPT
                     !.calls[id].pc = IF ok THEN "returned" ELSE "query threw"]
  /\ UNCHANGED <<db, setup, req, resp, prev, profile, page>>


(***************************************************************************)
(* Spec: the search routes next to the two setup paths, on a server that   *)
(* starts without the table.                                               *)
(***************************************************************************)
Init ==
  /\ db = FreshDb(FullServer)
  /\ setup = SetupIdle
  /\ req = NoRequest
  /\ resp = NoResponse
  /\ prev = NoResponse
  /\ profile = 1
  /\ page = PageIdle
  /\ pool = PoolIdle

PostSearch ==
  \E ep \in {"native", "bm25", "vector", "hybrid"} : Receive(ep, PlainBody, FALSE)

SearchStep ==
  \/ getOpenAIEmbedding(FALSE)
  \/ getTermStats(FALSE)
  \/ NativeQuery(FALSE)
  \/ Bm25Query(FALSE)
  \/ VectorQuery(FALSE)
  \/ HybridQuery(FALSE)
  \/ Sent(FALSE)

Next ==
  \/ ScriptStart
  \/ ScriptStep
  \/ EndpointStart
  \/ EndpointStep
  \/ PostSearch
  \/ SearchStep

Spec == Init /\ [][Next]_vars

(***************************************************************************)
(* SpecSearch: requests of every shape against the table as the setup      *)
(* script leaves it, with no rebuild running.                              *)
(***************************************************************************)
ScriptCompleteDb ==
  [avail |-> AllExtensions, ext |-> AllExtensions, table |-> TRUE,
   cols |-> ScriptColumns, rows |-> 1..ScriptDocCount, emb |-> 1..ScriptDocCount,
   idx |-> {"idx_documents_search", "idx_documents_bm25", "idx_documents_embedding"}]

ScriptComplete ==
  [kind |-> "script", pc |-> "complete", i |-> 0, fails |-> 0, old |-> {}]

InitSearch ==
  /\ db = ScriptCompleteDb
  /\ setup = ScriptComplete
  /\ req = NoRequest
  /\ resp = NoResponse
  /\ prev = NoResponse
  /\ profile \in Profiles
  /\ page = PageIdle
  /\ pool = PoolIdle

PostNative == \E body \in NativeBodies : Receive("native", body, FALSE)

PostBm25 == \E body \in Bm25Bodies : Receive("bm25", body, FALSE)

PostVector == \E body \in VectorBodies : Receive("vector", body, FALSE)

PostHybrid == \E body \in HybridBodies : Receive("hybrid", body, FALSE)

NextSearch ==
  \/ PostNative
  \/ PostBm25
  \/ PostVector
  \/ PostHybrid
  \/ SearchStep

SpecSearch == InitSearch /\ [][NextSearch]_vars

(***************************************************************************)
(* SpecSetup: the two setup paths alone, on every server of Environments,  *)
(* with OpenAI calls of the script that may fail.                          *)
(***************************************************************************)
InitSetup ==
  /\ \E env \in Environments : db = FreshDb(env)
  /\ setup = SetupIdle
  /\ req = NoRequest
  /\ resp = NoResponse
  /\ prev = NoResponse
  /\ profile = 1
  /\ page = PageIdle
  /\ pool = PoolIdle

NextSetup ==
  \/ ScriptStart
  \/ ScriptStep
  \/ generateEmbeddingsFails
  \/ EndpointStart
  \/ EndpointStep

SpecSetup == InitSetup /\ [][NextSetup]_vars

(***************************************************************************)
(* SpecPair: two requests in a row with the same query against the same    *)
(* table, the first response remembered in prev.                           *)
(***************************************************************************)
PairWeights == {Num(-2), Num(0), Num(50), Num(100)}

PairHybridBodies ==
  {Body(Str(QueryText), v, k, t) : v \in PairWeights, k \in PairWeights,
                                   t \in {Undef, Num(8)}}

PairBm25Bodies == {Body(Str(QueryText), Undef, Undef, t) : t \in Bm25Thresholds}

\* The caller re-sends to the same route, with the same options or with
\* one of them moved: the threshold switched on, or one weight raised.
Resend(ep, body) ==
  \/ prev = NoResponse
  \/ /\ prev # NoResponse
     /\ prev.request.ep = ep
     /\ LET was == prev.request.body
        IN \/ body = was
           \/ /\ body = [was EXCEPT !.scoreThreshold = body.scoreThreshold]
              /\ ~HasThreshold(was.scoreThreshold)
              /\ HasThreshold(body.scoreThreshold)
           \/ /\ body = [was EXCEPT !.vectorWeight = body.vectorWeight]
              /\ ParseWeight(was.vectorWeight) < ParseWeight(body.vectorWeight)
           \/ /\ body = [was EXCEPT !.keywordWeight = body.keywordWeight]
              /\ ParseWeight(was.keywordWeight) < ParseWeight(body.keywordWeight)

PairHybrid ==
  \E body \in PairHybridBodies : Resend("hybrid", body) /\ Receive("hybrid", body, TRUE)

PairBm25 ==
  \E body \in PairBm25Bodies : Resend("bm25", body) /\ Receive("bm25", body, TRUE)

NextPair ==
  \/ PairHybrid
  \/ PairBm25
  \/ getOpenAIEmbedding(TRUE)
  \/ getTermStats(TRUE)
  \/ Bm25Query(TRUE)
  \/ HybridQuery(TRUE)
  \/ Sent(TRUE)

SpecPair == InitSearch /\ [][NextPair]_vars

(***************************************************************************)
(* SpecPage: the page alone, every call of the user and every completion   *)
(* of a fetch in any order.                                                *)
(***************************************************************************)
NextPage ==
  \/ TypeQuery
  \/ ClickSearch
  \/ handleKeyDown
  \/ runDemoQuery
  \/ SearchSettles
  \/ MoveHybridMix
  \/ MoveHybridThreshold
  \/ MoveScoreThreshold
  \/ Tick
  \/ updateHybrid
  \/ updateBm25
  \/ UpdateSettles

SpecPage == Init /\ [][NextPage]_vars

(***************************************************************************)
(* SpecPool: calls of query() side by side.                                *)
(***************************************************************************)
NextPool ==
  \/ query
  \/ connect
  \/ clientQuery

SpecPool == Init /\ [][NextPool]_vars

(***************************************************************************)
(* Properties.  A response is read as the caller reads it, together with   *)
(* resp.seen: the table and the two ranked lists its statement ran on.     *)
(***************************************************************************)
Answered(r, ep) == r # NoResponse /\ r.status = 200 /\ r.method = ep

Ids(results) == {results[i].id : i \in 1..Len(results)}

\* The 1-based position of a document in a list of ids, 0 when absent.
RankIn(list, id) ==
  IF \E i \in 1..Len(list) : list[i] = id
  THEN CHOOSE i \in 1..Len(list) : list[i] = id
  ELSE 0

RebuildSteps ==
  {"extensions", "create", "insert", "embed", "indexes", "index_bm25",
   "index_vector", "verify"}

NewDocuments(kind) ==
  IF kind = "script" THEN 1..ScriptDocCount ELSE 1..EndpointDocCount

NewIndexes(kind) ==
  IF kind = "script"
  THEN {"idx_documents_search", "idx_documents_bm25", "idx_documents_embedding"}
  ELSE {"docs_search_idx", "docs_bm25_idx"}

\* C1: a search whose statement runs while a rebuild of an existing document
\* set is under way sees the table with either the complete previous set or
\* the complete new set, and with its indexes: never a missing, empty or
\* partly filled table, never one without indexes.
C1_RebuildIsAtomic ==
  (/\ resp # NoResponse
   /\ resp.dbCalls > 0
   /\ resp.seen.setupPc \in RebuildSteps
   /\ resp.seen.old # {})
  => /\ resp.seen.table
     /\ \/ resp.seen.rows = resp.seen.old /\ resp.seen.idx # {}
        \/ /\ resp.seen.rows = NewDocuments(resp.seen.setupKind)
           /\ NewIndexes(resp.seen.setupKind) \subseteq resp.seen.idx

Fused(r, id) ==
  LET v == RankIn(r.seen.lists.vector, id)
      k == RankIn(r.seen.lists.keyword, id)
      vnum == IF v = 0 THEN 0 ELSE r.vectorWeight
      vden == IF v = 0 THEN 1 ELSE 60 + v
      knum == IF k = 0 THEN 0 ELSE r.keywordWeight
      kden == IF k = 0 THEN 1 ELSE 60 + k
  IN Frac(vnum * kden + knum * vden, vden * kden)

Candidates(r) == Range(r.seen.lists.vector) \cup Range(r.seen.lists.keyword)

\* A document in one list only has the score weight / (60 + rank) of that list.
SoleContribution(r) ==
  \A i \in 1..Len(r.results) :
    LET row == r.results[i]
        v == RankIn(r.seen.lists.vector, row.id)
        k == RankIn(r.seen.lists.keyword, row.id)
    IN /\ (v > 0 /\ k = 0) => row.score.num * (60 + v) = row.score.den * r.vectorWeight
       /\ (v = 0 /\ k > 0) => row.score.num * (60 + k) = row.score.den * r.keywordWeight

Unthresholded(r, ep) == Answered(r, ep) /\ r.scoreThreshold = Null

ScoreBelow(ep, a, b) ==
  IF ep = "hybrid" THEN FracLess(a.score, b.score) ELSE a.score < b.score

ScoreEqual(ep, a, b) ==
  IF ep = "hybrid" THEN FracEq(a.score, b.score) ELSE a.score = b.score

Ranked(r) == Answered(r, "bm25") \/ Answered(r, "hybrid")

\* C4 as stated: BM25 and hybrid results come in descending score order, and
\* results with exactly equal scores in ascending document id order.
C4_DescendingTiesById ==
  Ranked(resp) =>
    \A i, j \in 1..Len(resp.results) :
      i < j =>
        /\ ~ScoreBelow(resp.method, resp.results[i], resp.results[j])
        /\ ScoreEqual(resp.method, resp.results[i], resp.results[j])
             => resp.results[i].id < resp.results[j].id

\* C4, amended: BM25 results come in descending score order and hybrid
\* results in descending fused-score order; the order among results with
\* exactly equal scores is not fixed.
C4_Descending ==
  Ranked(resp) =>
    \A i, j \in 1..Len(resp.results) :
      i < j => ~ScoreBelow(resp.method, resp.results[i], resp.results[j])

C4_Witness ==
  /\ Ranked(resp)
  /\ \E i, j, k \in 1..Len(resp.results) :
       /\ i < j /\ j < k
       /\ ScoreEqual(resp.method, resp.results[i], resp.results[j])
       /\ resp.results[i].id > resp.results[j].id
       /\ ScoreBelow(resp.method, resp.results[k], resp.results[j])

\* The 1-based position of a document in a result list, 0 when absent.
Position(results, id) ==
  IF \E i \in 1..Len(results) : results[i].id = id
  THEN CHOOSE i \in 1..Len(results) : results[i].id = id
  ELSE 0

\* Two hybrid answers in a row for one query on one table and the same two
\* ranked lists, the same threshold setting and one weight raised.
HybridPair ==
  /\ Answered(prev, "hybrid") /\ Answered(resp, "hybrid")
  /\ prev.seen.rows = resp.seen.rows
  /\ prev.seen.lists = resp.seen.lists
  /\ prev.scoreThreshold = resp.scoreThreshold

KeywordRaised ==
  /\ HybridPair
  /\ prev.vectorWeight = resp.vectorWeight
  /\ prev.keywordWeight < resp.keywordWeight

VectorRaised ==
  /\ HybridPair
  /\ prev.keywordWeight = resp.keywordWeight
  /\ prev.vectorWeight < resp.vectorWeight

NotWorse(id) ==
  Position(prev.results, id) > 0 =>
    /\ Position(resp.results, id) > 0
    /\ Position(resp.results, id) <= Position(prev.results, id)

KeywordOnly(r) == Range(r.seen.lists.keyword) \ Range(r.seen.lists.vector)

VectorOnly(r) == Range(r.seen.lists.vector) \ Range(r.seen.lists.keyword)

\* C5 as stated: raising keywordWeight with vectorWeight fixed never moves a
\* document found only in the BM25 list to a worse position of the hybrid
\* output, and raising vectorWeight with keywordWeight fixed never worsens a
\* document found only in the vector list.
C5_MonotonicWeights ==
  /\ KeywordRaised => \A id \in KeywordOnly(prev) : NotWorse(id)
  /\ VectorRaised => \A id \in VectorOnly(prev) : NotWorse(id)

\* C5, amended: the same, when the weight that is raised is positive before
\* the raise and the weight held fixed is not negative.
C5_MonotonicPositiveWeights ==
  /\ (KeywordRaised /\ prev.keywordWeight > 0 /\ prev.vectorWeight >= 0)
       => \A id \in KeywordOnly(prev) : NotWorse(id)
  /\ (VectorRaised /\ prev.vectorWeight > 0 /\ prev.keywordWeight >= 0)
       => \A id \in VectorOnly(prev) : NotWorse(id)

C5_Witness ==
  /\ KeywordRaised /\ prev.keywordWeight > 0 /\ prev.vectorWeight >= 0
  /\ \E id \in KeywordOnly(prev) :
       /\ Position(resp.results, id) > 0
       /\ Position(resp.results, id) < Position(prev.results, id)

\* What the request gives for a weight: the number itself, else 0.5.
Given(w) == IF w.t = "number" THEN w.n ELSE 50

\* C6: the hybrid endpoint uses each weight exactly as given whenever it is a
\* number (0, negative and above 1 included: no clamping, no normalisation,
\* no rejection) and 0.5 for a weight that is absent or not a number, each
\* weight on its own.
C6_WeightsAsGiven ==
  (/\ resp # NoResponse
   /\ resp.method = "hybrid"
   /\ resp.request.body.query = Str(QueryText))
  => /\ resp.status # 400
     /\ resp.vectorWeight = Given(resp.request.body.vectorWeight)
     /\ resp.keywordWeight = Given(resp.request.body.keywordWeight)
     /\ \A i \in 1..Len(resp.results) :
          LET row == resp.results[i]
              vw == Given(resp.request.body.vectorWeight)
              kw == Given(resp.request.body.keywordWeight)
              vnum == IF row.v_rank = Null THEN 0 ELSE vw
              vden == IF row.v_rank = Null THEN 1 ELSE 60 + row.v_rank.n
              knum == IF row.k_rank = Null THEN 0 ELSE kw
              kden == IF row.k_rank = Null THEN 1 ELSE 60 + row.k_rank.n
          IN row.score.num * vden * kden = row.score.den * (vnum * kden + knum * vden)

C6_Witness ==
  /\ Answered(resp, "hybrid")
  /\ resp.request.body.vectorWeight = Num(0)
  /\ resp.request.body.keywordWeight = Str(<<"1">>)
  /\ resp.vectorWeight = 0 /\ resp.keywordWeight = 50
  /\ Len(resp.results) > 0

\* C7: every hybrid result has a vector rank or a keyword rank; its reason is
\* 'Found by BOTH' exactly when the document is in both lists, 'Found by
\* VECTOR only' exactly when only in the vector list, 'Found by KEYWORD only'
\* exactly when only in the BM25 list; a reported rank is the document's
\* 1-based position (1..10) in the list, a missing rank is 'N/A'.
C7_ReasonAndRanks ==
  Answered(resp, "hybrid") =>
    \A i \in 1..Len(resp.results) :
      LET row == resp.results[i]
          v == RankIn(resp.seen.lists.vector, row.id)
          k == RankIn(resp.seen.lists.keyword, row.id)
      IN /\ v > 0 \/ k > 0
         /\ v \in 0..10 /\ k \in 0..10
         /\ (row.reason.found = "BOTH") <=> (v > 0 /\ k > 0)
         /\ (row.reason.found = "VECTOR only") <=> (v > 0 /\ k = 0)
         /\ (row.reason.found = "KEYWORD only") <=> (v = 0 /\ k > 0)
         /\ row.vectorRank = IF v > 0 THEN Num(v) ELSE Str(<<"N", "/", "A">>)
         /\ row.keywordRank = IF k > 0 THEN Num(k) ELSE Str(<<"N", "/", "A">>)
         /\ v > 0 => row.reason.vector = Num(v)
         /\ k > 0 => row.reason.keyword = Num(k)

C7_Witness ==
  /\ Answered(resp, "hybrid")
  /\ \E i, j, k \in 1..Len(resp.results) :
       /\ resp.results[i].reason.found = "BOTH"
       /\ resp.results[j].reason.found = "VECTOR only"
       /\ resp.results[j].keywordRank = NA
       /\ resp.results[k].reason.found = "KEYWORD only"
       /\ resp.results[k].vectorRank = NA

Thresholded(r, ep) == Answered(r, ep) /\ r.scoreThreshold # Null

\* score >= T/1000 for a fused score kept in hundredths
MeetsFused(score, T) == score.num * 10 >= T * score.den

\* C8: with a positive threshold T the BM25 endpoint keeps every matching
\* document with score >= T and the hybrid endpoint every fused result with
\* score >= T/1000, within the cap of 10 results; only results strictly
\* below the threshold are left out, a score equal to the threshold is kept.
C8_ThresholdInclusive ==
  /\ Thresholded(resp, "bm25") =>
       /\ \A i \in 1..Len(resp.results) :
            resp.results[i].score >= resp.scoreThreshold.n
       /\ \A d \in resp.seen.rows :
            (Bm25Score(profile, d) > 0 /\ Bm25Score(profile, d) >= resp.scoreThreshold.n)
              => (d \in Ids(resp.results) \/ Len(resp.results) = 10)
  /\ Thresholded(resp, "hybrid") =>
       /\ \A i \in 1..Len(resp.results) :
            MeetsFused(resp.results[i].score, resp.scoreThreshold.n)
       /\ \A d \in Candidates(resp) :
            MeetsFused(Fused(resp, d), resp.scoreThreshold.n)
              => (d \in Ids(resp.results) \/ Len(resp.results) = 10)

\* An unthresholded answer followed by the thresholded answer to the same
\* request on the same table.
ThresholdPair(ep) ==
  /\ Unthresholded(prev, ep) /\ Thresholded(resp, ep)
  /\ prev.seen.rows = resp.seen.rows /\ prev.seen.emb = resp.seen.emb
  /\ prev.vectorWeight = resp.vectorWeight
  /\ prev.keywordWeight = resp.keywordWeight

\* No two rows share a sort key in any ORDER BY of the statement.
TieFreeBm25(r) ==
  \A a, b \in {d \in r.seen.rows : Bm25Score(profile, d) > 0} :
    a # b => Bm25Score(profile, a) # Bm25Score(profile, b)

TieFreeHybrid(r) ==
  /\ TieFreeBm25(r)
  /\ \A a, b \in r.seen.emb : a # b => Distance(profile, a) # Distance(profile, b)
  /\ \A a, b \in Candidates(r) : a # b => ~FracEq(Fused(r, a), Fused(r, b))

\* C9, for requests whose statements meet no equal sort keys: the
\* thresholded BM25 or hybrid list is the unthresholded list of the same
\* request restricted to the results that meet the threshold (>= T, >= T/1000),
\* with the same ids, scores, source ranks and order.
C9_ThresholdOnlyFilters ==
  /\ (ThresholdPair("bm25") /\ TieFreeBm25(prev)) =>
       resp.results =
         SelectSeq(prev.results, LAMBDA row : row.score >= resp.scoreThreshold.n)
  /\ (ThresholdPair("hybrid") /\ TieFreeHybrid(prev)) =>
       resp.results =
         SelectSeq(prev.results, LAMBDA row : MeetsFused(row.score, resp.scoreThreshold.n))

\* The query is missing, null, the empty string or not a string.
InvalidQuery(q) == q.t # "string" \/ q = Str(<<>>)

Rejected(r) ==
  /\ r.status = 400 /\ r.error = "Query is required"
  /\ r.embedCalls = 0 /\ r.dbCalls = 0

\* C10 as stated: each search endpoint answers a request whose query is
\* missing, null, the empty string or not a string with 400 'Query is
\* required', before any database query or embedding request.
C10_InvalidQueryRejected ==
  /\ (resp # NoResponse /\ InvalidQuery(resp.request.body.query)) => Rejected(resp)
  /\ req # NoRequest => ~InvalidQuery(req.body.query)

\* C10, amended: so it is for a request whose body is a JSON object; a body
\* that is null or no JSON is answered 500 'Search failed', it too before any
\* database query or embedding request.
C10_InvalidQueryInObjectRejected ==
  /\ (resp # NoResponse /\ InvalidQuery(resp.request.body.query)) =>
       IF resp.request.body.json = "object"
       THEN Rejected(resp)
       ELSE /\ resp.status = 500 /\ resp.error = "Search failed"
            /\ resp.embedCalls = 0 /\ resp.dbCalls = 0
  /\ req # NoRequest => ~InvalidQuery(req.body.query)

C10_Witness ==
  /\ resp # NoResponse
  /\ resp.method = "hybrid"
  /\ resp.request.body.json = "object"
  /\ resp.request.body.query = Num(5)
  /\ Rejected(resp)

\* The query of response r is a text of which split(/\s+/) leaves no piece
\* of two characters: only whitespace, or only one-character words.
Termless(r) ==
  /\ r # NoResponse
  /\ r.request.body.json = "object"
  /\ r.request.body.query.t = "string"
  /\ r.request.body.query.s # <<>>
  /\ \A i \in 1..(Len(r.request.body.query.s) - 1) :
       IsSpace(r.request.body.query.s[i]) \/ IsSpace(r.request.body.query.s[i + 1])

EmbeddingFailed(r) == r.status = 500 /\ r.embedCalls > 0 /\ r.dbCalls = 0

Runs(s, W) ==
  LET starts == {a \in 1..Len(s) : s[a] \in W /\ (a = 1 \/ s[a - 1] \notin W)}
      End(a) == CHOOSE b \in a..Len(s) :
                  /\ \A j \in a..b : s[j] \in W
                  /\ b = Len(s) \/ s[b + 1] \notin W
      long == {a \in starts : End(a) - a + 1 >= 2}
      Nth(i) == CHOOSE a \in long : Cardinality({b \in long : b < a}) = i - 1
  IN [i \in 1..Cardinality(long) |-> SubSeq(s, Nth(i), End(Nth(i)))]

Letters == {"a", "b", "d", "g", "p", "A", "B", "D", "G", "P"}

Digits == {"1", "2"}

Punctuation == {"-"}

Searched(r) ==
  /\ r # NoResponse /\ r.status = 200
  /\ r.request.body.json = "object"

\* C12 as stated: the query terms of every search endpoint are the
\* lower-cased maximal alphanumeric runs of the query text, in order, those
\* shorter than 2 characters dropped; any other character separates terms.
C12_AlphanumericTerms ==
  Searched(resp) =>
    resp.queryTerms = Runs(ToLowerCase(resp.request.body.query.s), Letters \cup Digits)

\* C12, amended: the query terms are the lower-cased maximal runs of
\* characters other than whitespace, in order, those shorter than 2
\* characters dropped; only whitespace separates terms, so 'PG-12' is the
\* one term 'pg-12'.
C12_WhitespaceTerms ==
  Searched(resp) =>
    resp.queryTerms =
      Runs(ToLowerCase(resp.request.body.query.s), Letters \cup Digits \cup Punctuation)

C12_Witness ==
  /\ Searched(resp)
  /\ resp.request.body.query = Str(PunctuatedText)
  /\ resp.queryTerms = << <<"p", "g", "-", "1", "2">> >>

\* The statistics of a BM25 response, one record per query term.
Stats(r) == {r.termStats[i] : i \in 1..Len(r.termStats)}

\* C13: the IDF the BM25 endpoint reports for a term with document frequency
\* n >= 1 is ln((N - n + 0.5) / (n + 0.5) + 1), to two decimals, with N the
\* number of documents in the table when the request ran.
C13_IdfOfTableCount ==
  Answered(resp, "bm25") =>
    \A stat \in Stats(resp) :
      stat.docFreq >= 1 =>
        stat.idf = Num(IdfFixed(Cardinality(resp.seen.rows), stat.docFreq))

\* C14: the document frequency of a term never exceeds the document count
\* used in its IDF, the argument of the logarithm is at least 1 and the
\* reported IDF is not negative.
C14_IdfNotNegative ==
  Answered(resp, "bm25") =>
    \A stat \in Stats(resp) :
      /\ stat.docFreq <= TotalDocs
      /\ ~FracLess(stat.idfArg, Frac(1, 1))
      /\ stat.idf # NA => stat.idf.n >= 0

\* The sum of the word counts of the documents S of the table a response saw.
RECURSIVE TotalWords(_, _)
TotalWords(seen, S) ==
  IF S = {} THEN 0
  ELSE LET d == CHOOSE d \in S : TRUE
       IN WordCount(seen, d) + TotalWords(seen, S \ {d})

\* The length factor of a document of n words against the average total / N.
FactorAgainst(n, total, N) ==
  IF n * N < total THEN "boost (shorter than avg)"
  ELSE IF 2 * n * N > 3 * total THEN "penalty (longer than avg)"
       ELSE "neutral"

\* C15: the BM25 endpoint classifies each result's length factor against the
\* sum of the word counts of the documents in the table divided by their
\* number.
C15_AverageOfTable ==
  Answered(resp, "bm25") =>
    \A i \in 1..Len(resp.results) :
      resp.results[i].lengthFactor =
        FactorAgainst(resp.results[i].word_count,
                      TotalWords(resp.seen, resp.seen.rows),
                      Cardinality(resp.seen.rows))

\* C16: of two terms of one BM25 request with document frequencies
\* 1 <= n1 < n2 the first is reported with the strictly greater IDF; and so
\* for every two document frequencies a table of the script can yield.
C16_IdfDecreasing ==
  /\ Answered(resp, "bm25") =>
       \A a, b \in Stats(resp) :
         (1 <= a.docFreq /\ a.docFreq < b.docFreq) => a.idf.n > b.idf.n
  /\ \A n1, n2 \in 1..ScriptDocCount : n1 < n2 => Idf(n1).n > Idf(n2).n

C16_Witness ==
  /\ Answered(resp, "bm25")
  /\ \E a, b \in Stats(resp) :
       /\ 1 <= a.docFreq /\ a.docFreq < b.docFreq /\ b.docFreq > TotalDocs
       /\ a.idf.n > 0 /\ b.idf.n < 0

\* Two answered requests in a row, identical in route, query and options,
\* against the same table.
SamePair(ep) ==
  /\ Answered(prev, ep) /\ Answered(resp, ep)
  /\ prev.request = resp.request
  /\ prev.seen.rows = resp.seen.rows /\ prev.seen.emb = resp.seen.emb

C18_StatsOfRankedTable ==
  Answered(resp, "bm25") =>
    \A stat \in Stats(resp) :
      /\ stat.docFreq = TermStatsSql(resp.seen, profile, stat.term)
      /\ stat.idf = Idf(TermStatsSql(resp.seen, profile, stat.term))

\* The documents the statement of the BM25 route matches on the table a
\* response saw: those with a non-zero score, none when the statement fails.
Bm25Matched(seen) ==
  IF Bm25SqlRuns(seen)
  THEN {d \in seen.rows : -Bm25Score(profile, d) < Bm25Bound(Undef)}
  ELSE {}

\* C19: for a query with at least one term, every document native search
\* matches is matched by BM25 on the same table, so BM25 has no fewer matches
\* than native search.
C19_NativeWithinBm25 ==
  (Answered(resp, "native") /\ resp.queryTerms # <<>>) =>
    /\ Ids(resp.results) \subseteq Bm25Matched(resp.seen)
    /\ Cardinality(Bm25Matched(resp.seen)) >= Len(resp.results)

\* The .md files of data/documents.
MarkdownFiles == {"README.md", "query-performance-optimization.md"}

\* C20: after a successful run of the setup script the documents table holds
\* exactly one row per .md file of data/documents.
C20_OneRowPerFile ==
  (setup.kind = "script" /\ setup.pc = "complete") =>
    Cardinality(db.rows) = Cardinality(MarkdownFiles)

\* C21: whenever the setup script prints 'Setup Complete', pg_textsearch and
\* vectorscale are enabled, every document has an embedding and the BM25
\* index and a vector index exist.
C21_CompleteMeansReady ==
  (setup.kind = "script" /\ setup.pc = "complete") =>
    /\ {"pg_textsearch", "vectorscale"} \subseteq db.ext
    /\ db.emb = db.rows
    /\ {"idx_documents_bm25", "idx_documents_embedding"} \subseteq db.idx

\* The hybrid sliders have rested for the debounce time and no timer is due.
Rested ==
  /\ page.moved.any /\ page.moved.since = DebounceTicks
  /\ \A timer \in page.hybridTimers : timer.left > 0

\* The hybrid re-runs in flight that went out since the last slider change
\* carry the sliders' values.
CarriesFinal ==
  \A r \in page.inflight :
    (r.kind = "hybrid" /\ r.seq = page.moved.seq) =>
      /\ r.hybridMix = page.hybridMix
      /\ r.hybridThreshold = page.hybridThreshold

\* C23 as stated: after a burst of hybrid slider changes exactly one hybrid
\* request is sent, 300 ms after the last change and with the final values,
\* and the timer of every earlier change is cancelled before it fires.
C23_OneRequestPerBurst ==
  /\ Cardinality(page.hybridTimers) <= 1
  /\ (page.moved.any /\ ~Rested) => page.moved.sent = 0
  /\ Rested => page.moved.sent = 1
  /\ CarriesFinal

\* C23, amended: exactly one request when the last change found hybrid
\* results on display and a search box that is not empty, none otherwise.
C23_OneRequestWhenShown ==
  /\ Cardinality(page.hybridTimers) <= 1
  /\ (page.moved.any /\ ~Rested) => page.moved.sent = 0
  /\ Rested => page.moved.sent = (IF page.moved.ready THEN 1 ELSE 0)
  /\ \A timer \in page.hybridTimers :
       /\ timer.left = DebounceTicks - page.moved.since
       /\ timer.hybridMix = page.hybridMix
       /\ timer.hybridThreshold = page.hybridThreshold
  /\ CarriesFinal

C23_Witness ==
  /\ Rested /\ page.moved.sent = 1
  /\ page.hybridMix = PageIdle.hybridMix /\ page.hybridThreshold # 0
  /\ \E r \in page.inflight : r.kind = "hybrid" /\ r.seq = page.moved.seq

\* A vector response to a request with a similarity threshold.
VectorThresholded(r) ==
  /\ Answered(r, "vector")
  /\ r.scoreThreshold # Null

FullSearchInFlight == \E r \in page.inflight : r.kind = "full"

\* C25: while a full search is in flight the loading flag is true; loading
\* is false only when no full search is in flight.
C25_LoadingWhileInFlight == FullSearchInFlight => page.loading

\* The request a panel shows the response to, 0 for none.
Shown(data) == IF data = Null THEN 0 ELSE data.seq

\* C26: a response to an earlier request never overwrites, in any of the
\* four panels, the response to a request issued later.
C26_LatestResponseStays ==
  [][/\ Shown(page'.nativeResults) >= Shown(page.nativeResults)
     /\ Shown(page'.bm25Results) >= Shown(page.bm25Results)
     /\ Shown(page'.vectorResults) >= Shown(page.vectorResults)
     /\ Shown(page'.hybridResults) >= Shown(page.hybridResults)]_vars

\* The queries of the responses on display.
ShownQueries ==
  {data.query : data \in {page.nativeResults, page.bm25Results,
                          page.vectorResults, page.hybridResults} \ {Null}}

\* C27: whenever no request is in flight the four panels show results for
\* one and the same query.
C27_OneQueryOnDisplay ==
  page.inflight = {} => Cardinality(ShownQueries) <= 1

\* The four result states.
Panels(pg) ==
  <<pg.nativeResults, pg.bm25Results, pg.vectorResults, pg.hybridResults>>

\* C28: a full search one of whose requests fails (the fetch rejects or its
\* body does not parse) changes none of the four result states; one whose
\* four responses were received and parsed sets all four; either way loading
\* returns to false.
C28_AllOrNothing ==
  [][\A r \in page.inflight :
       (r.kind = "full" /\ r \notin page'.inflight) =>
         /\ ~page'.loading
         /\ IF page'.logged.seq = r.seq
            THEN Panels(page') = Panels(page)
            ELSE Panels(page') = <<Data(r), Data(r), Data(r), Data(r)>>]_vars

C28_Witness ==
  /\ page.logged.seq > 0 /\ page.logged.error = "json"
  /\ ~page.loading /\ page.inflight = {}
  /\ page.hybridResults # Null /\ Shown(page.hybridResults) < page.logged.seq
  /\ Panels(page) = <<page.hybridResults, page.hybridResults,
                      page.hybridResults, page.hybridResults>>

\* A call of query() has returned or thrown.
Over(call) == call.pc \in {"returned", "query threw", "connect threw"}

\* C29: every call of query() that acquired a client releases it exactly
\* once, whether the statement returns or throws, and holds it until then;
\* a call whose pool.connect() fails releases nothing and throws; when all
\* calls are over no client is checked out.
C29_ReleasedOnce ==
  /\ \A id \in Calls :
       LET call == pool.calls[id]
       IN /\ call.pc \in {"returned", "query threw"} =>
               call.released = 1 /\ id \notin pool.clients
          /\ call.pc \in {"idle", "connect", "connect threw"} =>
               call.released = 0 /\ id \notin pool.clients
          /\ call.pc = "query" => call.released = 0 /\ id \in pool.clients
  /\ (\A id \in Calls : Over(pool.calls[id])) => pool.clients = {}

C29_Witness ==
  /\ \A id \in Calls : Over(pool.calls[id])
  /\ \E a, b, c \in Calls :
       /\ pool.calls[a].pc = "returned" /\ pool.calls[b].pc = "query threw"
       /\ pool.calls[c].pc = "connect threw"
  /\ pool.clients = {}

\* C30: after either setup path has completed, documents has the columns
\* full_text, embedding and search_vector and the BM25 index
\* idx_documents_bm25, so the statement of each of the four search routes
\* runs on the table.
C30_SchemaAfterSetup ==
  setup.pc = "complete" =>
    /\ {"full_text", "embedding", "search_vector"} \subseteq db.cols
    /\ "idx_documents_bm25" \in db.idx
    /\ NativeSqlRuns(db) /\ Bm25SqlRuns(db)
    /\ VectorSqlRuns(db) /\ HybridSqlRuns(db)

====
